---- MODULE Spec2Model ----
(***************************************************************************)
(* A model of the High-level Intermediate Representation (src/hir/mod.rs): *)
(* the IR data model and its conversions, the Display implementation of    *)
(* Ast with its printer queue, Match nodes with their decision trees, and  *)
(* the monomorphisation memo table.                                        *)
(*                                                                         *)
(* The printer (hir/printer.rs), the decision tree builder                 *)
(* (hir/decision_tree_monomorphisation.rs) and the monomorphiser           *)
(* (hir/monomorphisation.rs) are declared by mod.rs but their code is not  *)
(* part of the source tree at hand; those parts follow the design document.*)
(***************************************************************************)
EXTENDS Integers, Sequences, FiniteSets, TLC

\* ------------------------------------------------------------------ bounds

\* Number of shared Definition nodes an Ast graph may hold.
NumDefs == 2
\* Number of Variable occurrences in the whole Ast graph.
MaxVars == 3
\* Number of Display calls made on one Ast value.
MaxRuns == 2

VARIABLES
    \* --- the Ast being printed
    body,        \* node -> the Variables met, in order, when the node is walked
    \* --- one Display::fmt call
    pc,          \* position inside Display::fmt
    queue,       \* printer.queue: definitions waiting to be printed
    scheduled,   \* printer: definition identities already enqueued
    cur,         \* the `ast` bound by `while let Some(ast)`
    out,         \* the text written to the formatter so far, as tokens
    result,      \* fmt's return value
    wfailed,     \* a write to the formatter has returned Err
    fallible,    \* whether the formatter's sink can fail at all
    run,         \* which Display call this is
    prevOut      \* the text the previous Display call produced

printVars == <<body, pc, queue, scheduled, cur, out, result, wfailed, fallible,
               run, prevOut>>

VARIABLES
    \* --- one Match being lowered and evaluated
    rows,        \* the match's pattern rows with their branch indices
    phase,       \* "rows", "compiled", "evaluated"
    match,       \* the hir::Match built for the rows
    scrut,       \* the scrutinee value the tree is evaluated on
    reached      \* what the evaluation of the decision tree ended in

treeVars == <<rows, phase, match, scrut, reached>>

VARIABLES
    \* --- one compilation's monomorphisation state
    memo,        \* (generic definition, type arguments) -> DefinitionId
    hirDefs,     \* the concrete IR definitions produced so far
    callSites,   \* the call sites lowered so far, with the id each refers to
    nextId       \* the next unused DefinitionId

monoVars == <<memo, hirDefs, callSites, nextId>>

VARIABLES
    \* --- the data model's conversions
    rcHeap,      \* the Ast nodes allocated by Rc::new, by address
    made         \* the conversions made so far: what was converted, and to what

convVars == <<rcHeap, made>>

vars == <<printVars, treeVars, monoVars, convVars>>

\* ------------------------------------------------------------ IR data model

\* DefinitionId(usize): the ids of the shared definitions, and one id that
\* is bound by a function parameter or a match pattern.
Defs == 1..NumDefs
ParamId == NumDefs + 1
RootNode == 0
Nodes == {RootNode} \cup Defs

\* Option<Rc<Ast>> as a sequence of at most one handle.
None == <<>>
Some(x) == <<x>>

\* DefinitionInfo { definition, definition_id }
DefinitionInfo(handle, id) == [definition |-> handle, definition_id |-> id]

\* The Variables an Ast can hold: a use of a shared definition carries the
\* handle to that definition, a parameter or pattern variable carries none.
Variables ==
    {DefinitionInfo(Some(d), d) : d \in Defs} \cup {DefinitionInfo(None, ParamId)}

\* ----------------------------------------------------------------- graphs

EmptyGraph == [n \in Nodes |-> <<>>]

\* The Ast graphs with k Variable occurrences in all: each node (the root, or
\* the body of a shared definition) holds the Variables met when it is walked.
RECURSIVE GraphsOfSize(_)
GraphsOfSize(k) ==
    IF k = 0 THEN {EmptyGraph}
    ELSE {[g EXCEPT ![n] = Append(@, v)] :
             g \in GraphsOfSize(k - 1), n \in Nodes, v \in Variables}

AstGraphs == UNION {GraphsOfSize(k) : k \in 0..MaxVars}

\* --------------------------------------------------------------- printer

Tok(kind, id) == [kind |-> kind, id |-> id]
SepTok == Tok("sep", 0)
HeadTok(n) == IF n = RootNode THEN Tok("root", 0) ELSE Tok("def", n)

\* AstPrinter::default()
DefaultPrinter == [queue |-> <<>>, scheduled |-> {}]

\* The longest text an Ast of this size renders to: the root, one header and
\* one separator per definition, one reference per Variable. Writes stop
\* there, which keeps the text finite whatever the loop does.
MaxOut == 1 + 2 * NumDefs + MaxVars

\* fmt_ast of a Variable, before its reference is written: a definition that
\* has not been scheduled yet is enqueued.
Schedule(v, st) ==
    IF v.definition # None /\ v.definition_id \notin st.scheduled
    THEN [st EXCEPT !.queue = Append(@, v.definition[1]),
                    !.scheduled = @ \cup {v.definition_id}]
    ELSE st

\* A write of one token when k more writes succeed.
Write(tok, st, k) ==
    IF k = 0 THEN [st EXCEPT !.ok = FALSE]
    ELSE [st EXCEPT !.out = Append(@, tok)]

RECURSIVE FmtVariables(_, _, _)
FmtVariables(vs, st, k) ==
    IF vs = <<>> \/ ~st.ok THEN st
    ELSE LET v  == Head(vs)
             s1 == Schedule(v, st)
             s2 == Write(Tok("ref", v.definition_id), s1, k)
         IN  FmtVariables(Tail(vs), s2, IF k = 0 THEN 0 ELSE k - 1)

\* fmt_ast of node n when the first k writes succeed and the next one fails.
FmtAst(n, st, k) ==
    LET s1 == Write(HeadTok(n), st, k)
    IN  FmtVariables(body[n], s1, IF k = 0 THEN 0 ELSE k - 1)

\* The number of writes fmt_ast of node n makes.
NumWrites(n) == 1 + Len(body[n])

\* How many writes may succeed: all of them, or, with a sink that can fail,
\* any number short of that.
Successes(w) == IF fallible THEN 0..w ELSE {w}

PrinterState == [queue |-> queue, scheduled |-> scheduled, out |-> out, ok |-> TRUE]

\* A pop from the wrong end of the queue.
PopBack(q) == [ast |-> q[Len(q)], rest |-> SubSeq(q, 1, Len(q) - 1)]

\* A read of the front that leaves it in the queue.
PeekFront(q) == [ast |-> Head(q), rest |-> q]

\* VecDeque::pop_front
PopFront(q) == [ast |-> Head(q), rest |-> Tail(q)]

\* ---------------------------------------------------------- Display::fmt

\* A printer that keeps what the previous call left in it.
StalePrinter == [queue |-> queue, scheduled |-> scheduled]

\* let mut printer = printer::AstPrinter::default();
NewPrinter == DefaultPrinter

\* An error that is dropped instead of returned.
Swallow(ok, next) == [pc |-> next, result |-> "none"]

\* The `?` after a write or a fmt_ast call: an Err is returned at once.
Propagate(ok, next) ==
    [pc |-> IF ok THEN next ELSE "done", result |-> IF ok THEN "none" ELSE "Err"]

DisplayBegin ==
    /\ pc = "call"
    /\ pc' = "root"
    /\ queue' = NewPrinter.queue
    /\ scheduled' = NewPrinter.scheduled
    /\ out' = <<>>
    /\ result' = "none"
    /\ wfailed' = FALSE
    /\ UNCHANGED <<body, cur, fallible, run, prevOut>>
    /\ UNCHANGED <<treeVars, monoVars, convVars>>

\* The effect of one `fmt_ast(&mut printer, f)?` on node n, going on to `next`.
FmtStep(n, k, next) ==
    LET st == FmtAst(n, PrinterState, k)
    IN  /\ queue' = st.queue
        /\ scheduled' = st.scheduled
        /\ out' = st.out
        /\ wfailed' = (wfailed \/ ~st.ok)
        /\ pc' = Propagate(st.ok, next).pc
        /\ result' = Propagate(st.ok, next).result

\* self.fmt_ast(&mut printer, f)?;
FmtRoot ==
    /\ pc = "root"
    /\ Len(out) < MaxOut
    /\ \E k \in Successes(NumWrites(RootNode)) : FmtStep(RootNode, k, "loop")
    /\ UNCHANGED <<body, cur, fallible, run, prevOut>>
    /\ UNCHANGED <<treeVars, monoVars, convVars>>

\* while let Some(ast) = printer.queue.pop_front()
LoopPop ==
    /\ pc = "loop"
    /\ queue # <<>>
    /\ cur' = PopFront(queue).ast
    /\ queue' = PopFront(queue).rest
    /\ pc' = "sep"
    /\ UNCHANGED <<body, scheduled, out, result, wfailed, fallible, run, prevOut>>
    /\ UNCHANGED <<treeVars, monoVars, convVars>>

\* write!(f, "\n\n")?;
WriteSep ==
    /\ pc = "sep"
    /\ Len(out) < MaxOut
    /\ \E k \in Successes(1) :
          LET st == Write(SepTok, PrinterState, k)
          IN  /\ out' = st.out
              /\ wfailed' = (wfailed \/ ~st.ok)
              /\ pc' = Propagate(st.ok, "body").pc
              /\ result' = Propagate(st.ok, "body").result
    /\ UNCHANGED <<body, queue, scheduled, cur, fallible, run, prevOut>>
    /\ UNCHANGED <<treeVars, monoVars, convVars>>

\* ast.fmt_ast(&mut printer, f)?;
FmtQueued ==
    /\ pc = "body"
    /\ Len(out) < MaxOut
    /\ \E k \in Successes(NumWrites(cur)) : FmtStep(cur, k, "loop")
    /\ UNCHANGED <<body, cur, fallible, run, prevOut>>
    /\ UNCHANGED <<treeVars, monoVars, convVars>>

\* The queue is empty: Ok(())
ReturnOk ==
    /\ pc = "loop"
    /\ queue = <<>>
    /\ pc' = "done"
    /\ result' = "Ok"
    /\ UNCHANGED <<body, queue, scheduled, cur, out, wfailed, fallible, run, prevOut>>
    /\ UNCHANGED <<treeVars, monoVars, convVars>>

\* The same Ast value is rendered once more.
DisplayAgain ==
    /\ pc = "done"
    /\ run < MaxRuns
    /\ run' = run + 1
    /\ prevOut' = out
    /\ pc' = "call"
    /\ UNCHANGED <<body, queue, scheduled, cur, out, result, wfailed, fallible>>
    /\ UNCHANGED <<treeVars, monoVars, convVars>>

Display == DisplayBegin \/ FmtRoot \/ LoopPop \/ WriteSep \/ FmtQueued \/ ReturnOk

\* ---------------------------------------------- Match and DecisionTree

\* The discriminants of the documented matches are the tags of a two-variant
\* enum (None, Some); cases: Vec<(u32, DecisionTree)> holds them as integers.
TagNone == 0
TagSome == 1
Tags == {TagNone, TagSome}

\* The documented matches scrutinise two values (value1, value2).
NumCols == 2
Columns == 1..NumCols

\* Number of pattern rows of a match.
MaxRows == 3

\* DecisionTree::Leaf(usize)
Leaf(i) == [kind |-> "Leaf", index |-> i]

\* DecisionTree::Definition(Definition, Box<DecisionTree>)
DefinitionNode(def, rest) == [kind |-> "Definition", def |-> def, rest |-> rest]

\* DecisionTree::Switch { int_to_switch_on, cases, else_case }
Switch(on, cases, else) ==
    [kind |-> "Switch", int_to_switch_on |-> on, cases |-> cases, else_case |-> else]

\* hir::Definition { variable, expr, mutable }
Definition(variable, expr, mutable) ==
    [variable |-> variable, expr |-> expr, mutable |-> mutable]

\* hir::Match { branches, decision_tree }
Match(branches, tree) == [branches |-> branches, decision_tree |-> tree]

\* The tree the source documents for
\*     match foo | None, None -> ... | _ -> ...
\* with a leaf that names the wrong branch,
DocTreeWrongLeaf ==
    Switch(1, << <<TagSome, Leaf(0)>>,
                 <<TagNone, Switch(2, << <<TagSome, Leaf(1)>>,
                                         <<TagNone, Leaf(0)>> >>, None)>> >>, None)

\* with a leaf that names no branch,
DocTreeBadIndex ==
    Switch(1, << <<TagSome, Leaf(1)>>,
                 <<TagNone, Switch(2, << <<TagSome, Leaf(2)>>,
                                         <<TagNone, Leaf(0)>> >>, None)>> >>, None)

\* and with a case left out of the inner Switch.
DocTreeMissingCase ==
    Switch(1, << <<TagSome, Leaf(1)>>,
                 <<TagNone, Switch(2, << <<TagNone, Leaf(0)>> >>, None)>> >>, None)

\* Switch value1 { Some -> Leaf(1)
\*                 None -> switch value2 { Some -> Leaf(1)  None -> Leaf(0) } }
DocTree ==
    Switch(1, << <<TagSome, Leaf(1)>>,
                 <<TagNone, Switch(2, << <<TagSome, Leaf(1)>>,
                                         <<TagNone, Leaf(0)>> >>, None)>> >>, None)

\* ---- patterns

Wild == [wild |-> TRUE, tag |-> TagNone]
Con(t) == [wild |-> FALSE, tag |-> t]
Cells == {Wild} \cup {Con(t) : t \in Tags}
Patterns == [Columns -> Cells]
Row(pattern, branch) == [pattern |-> pattern, branch |-> branch]

\* The rows of `| None, None -> ... | _ -> ...`
DocRows ==
    << Row([c \in Columns |-> Con(TagNone)], 0), Row([c \in Columns |-> Wild], 1) >>

\* The rows of
\*     match (a, b) | (None, _) -> 0 | (_, None) -> 0 | (Some x, Some y) -> 1
\* where the first two rows select one and the same branch.
ScenarioRows ==
    << Row([c \in Columns |-> IF c = 1 THEN Con(TagNone) ELSE Wild], 0),
       Row([c \in Columns |-> IF c = 2 THEN Con(TagNone) ELSE Wild], 0),
       Row([c \in Columns |-> Con(TagSome)], 1) >>

\* Row lists in source order: the rows of a branch follow those of the branch
\* before it, and the branches are numbered from 0 without gaps. fresh[i] says
\* whether row i opens a new branch.
RECURSIVE BranchOf(_, _)
BranchOf(fresh, i) ==
    IF i = 1 THEN 0 ELSE BranchOf(fresh, i - 1) + (IF fresh[i] THEN 1 ELSE 0)

RowList(ps, fresh) == [i \in 1..Len(ps) |-> Row(ps[i], BranchOf(fresh, i))]

Values == [Columns -> Tags]

\* Whether a pattern matches a scrutinee value.
Matches(pattern, v) == \A c \in Columns : pattern[c].wild \/ pattern[c].tag = v[c]

\* The type checker has rejected every match that leaves a value unmatched.
Exhaustive(rs) == \A v \in Values : \E i \in 1..Len(rs) : Matches(rs[i].pattern, v)

\* Whether rs is the type-checked match built from the patterns ps.
IsMatchInput(rs) ==
    \E n \in 1..MaxRows : \E ps \in [1..n -> Patterns], fresh \in [1..n -> BOOLEAN] :
        /\ ~fresh[1]
        /\ Exhaustive(RowList(ps, fresh)) = TRUE
        /\ rs = RowList(ps, fresh)

\* Sequential first-match testing: the first row, in source order, whose
\* pattern the value satisfies.
FirstMatchRow(rs, v) ==
    CHOOSE i \in 1..Len(rs) :
        /\ Matches(rs[i].pattern, v)
        /\ \A j \in 1..(i - 1) : ~Matches(rs[j].pattern, v)

FirstMatch(rs, v) == rs[FirstMatchRow(rs, v)].branch

\* ---- the decision tree builder

\* The constants observed in column c.
Observed(rs, c) ==
    {rs[i].pattern[c].tag : i \in {j \in 1..Len(rs) : ~rs[j].pattern[c].wild}}

\* A payload-carrying constructor pattern (Some x) binds its payload.
Binders(r) == {c \in Columns : ~r.pattern[c].wild /\ r.pattern[c].tag = TagSome}

\* A leaf per row instead of a leaf per branch.
LeafOfRowPosition(r, pos) == Leaf(pos - 1)

\* The leaf a row ends in: the row's branch index.
LeafOfRow(r, pos) == Leaf(r.branch)

\* The Definition nodes that bind the row's pattern variables, then its leaf.
RECURSIVE Bind(_, _, _)
Bind(r, cs, leaf) ==
    IF cs = {} THEN leaf
    ELSE LET c == CHOOSE x \in cs : \A y \in cs : x >= y
         IN  Bind(r, cs \ {c},
                  DefinitionNode(Definition(c, [payload_of |-> c], FALSE), leaf))

\* The else_case is always left out.
NeverElse(observed) == TRUE

\* The else_case is left out only when the cases are exhaustive for the
\* discriminant's type.
OmitElse(observed) == observed = Tags

\* The rows a case on constant t of column c keeps: those that demand t there
\* and those that do not constrain the column.
RowsFor(rs, c, t) ==
    SelectSeq(rs, LAMBDA r : r.row.pattern[c].wild \/ r.row.pattern[c].tag = t)

\* The rows that did not constrain column c.
Unconstrained(rs, c) == SelectSeq(rs, LAMBDA r : r.row.pattern[c].wild)

\* rs: the remaining rows, each with its position in the source;
\* c: the next undecided column.
RECURSIVE Build(_, _)
RECURSIVE BuildCases(_, _, _)
BuildCases(ts, rs, c) ==
    IF ts = {} THEN <<>>
    ELSE LET t == CHOOSE x \in ts : \A y \in ts : x <= y
         IN  << <<t, Build(RowsFor(rs, c, t), c + 1)>> >> \o BuildCases(ts \ {t}, rs, c)

Build(rs, c) ==
    IF rs = <<>> THEN [kind |-> "Fail"]
    ELSE IF \A d \in Columns : d >= c => Head(rs).row.pattern[d].wild
    THEN Bind(Head(rs).row, Binders(Head(rs).row),
              LeafOfRow(Head(rs).row, Head(rs).pos))
    ELSE LET obs == Observed([i \in 1..Len(rs) |-> rs[i].row], c)
         IN  IF obs = {} THEN Build(rs, c + 1)
             ELSE Switch(c, BuildCases(obs, rs, c),
                         IF OmitElse(obs) THEN None
                         ELSE Some(Build(Unconstrained(rs, c), c + 1)))

Positioned(rs) == [i \in 1..Len(rs) |-> [row |-> rs[i], pos |-> i]]

\* One branch body per branch index, stored once.
Branches(rs) == [i \in 1..(rs[Len(rs)].branch + 1) |-> [body_of_branch |-> i - 1]]

\* The Match node the lowering produces for the rows.
Lower(rs) == Match(Branches(rs), Build(Positioned(rs), 1))

\* ---- evaluation of a decision tree

Stuck == [stuck |-> TRUE, leaf |-> 0, bound |-> {}]

RECURSIVE Eval(_, _, _)
Eval(tree, v, bound) ==
    IF tree.kind = "Leaf" THEN [stuck |-> FALSE, leaf |-> tree.index, bound |-> bound]
    ELSE IF tree.kind = "Definition"
    THEN Eval(tree.rest, v, bound \cup {tree.def.variable})
    ELSE IF tree.kind = "Switch"
    THEN LET d == v[tree.int_to_switch_on]
             hit == {i \in 1..Len(tree.cases) : tree.cases[i][1] = d}
         IN  IF hit # {}
             THEN Eval(tree.cases[CHOOSE i \in hit : \A j \in hit : i <= j][2], v, bound)
             ELSE IF tree.else_case # None THEN Eval(tree.else_case[1], v, bound)
             ELSE Stuck
    ELSE Stuck

\* The leaf indices of a tree, one entry per position.
RECURSIVE LeafList(_)
RECURSIVE LeafListOfCases(_)
LeafListOfCases(cases) ==
    IF cases = <<>> THEN <<>>
    ELSE LeafList(Head(cases)[2]) \o LeafListOfCases(Tail(cases))

LeafList(tree) ==
    IF tree.kind = "Leaf" THEN <<tree.index>>
    ELSE IF tree.kind = "Definition" THEN LeafList(tree.rest)
    ELSE IF tree.kind = "Switch"
    THEN LeafListOfCases(tree.cases)
         \o (IF tree.else_case = None THEN <<>> ELSE LeafList(tree.else_case[1]))
    ELSE <<>>

\* The Switch nodes of a tree, as (case constants, has an else_case) pairs.
RECURSIVE SwitchList(_)
RECURSIVE SwitchListOfCases(_)
SwitchListOfCases(cases) ==
    IF cases = <<>> THEN <<>>
    ELSE SwitchList(Head(cases)[2]) \o SwitchListOfCases(Tail(cases))

SwitchList(tree) ==
    IF tree.kind = "Definition" THEN SwitchList(tree.rest)
    ELSE IF tree.kind = "Switch"
    THEN << [consts |-> {tree.cases[i][1] : i \in 1..Len(tree.cases)},
             has_else |-> tree.else_case # None] >>
         \o SwitchListOfCases(tree.cases)
         \o (IF tree.else_case = None THEN <<>> ELSE SwitchList(tree.else_case[1]))
    ELSE IF tree.kind = "Leaf" THEN <<>>
    ELSE << [consts |-> {}, has_else |-> FALSE] >>

\* ---- lowering and evaluating one match

\* The match is lowered by the decision tree builder.
Compile ==
    /\ phase = "rows"
    /\ match' = Lower(rows)
    /\ phase' = "compiled"
    /\ UNCHANGED <<rows, scrut, reached>>
    /\ UNCHANGED <<printVars, monoVars, convVars>>

\* The documented match, lowered to the tree the source documents for it.
CompileDocumented ==
    /\ phase = "rows"
    /\ rows = DocRows
    /\ match' = Match(Branches(rows), DocTree)
    /\ phase' = "compiled"
    /\ UNCHANGED <<rows, scrut, reached>>
    /\ UNCHANGED <<printVars, monoVars, convVars>>

\* A backend runs the match on a scrutinee value.
Evaluate ==
    /\ phase = "compiled"
    /\ \E v \in Values :
          /\ scrut' = v
          /\ reached' = Eval(match.decision_tree, v, {})
    /\ phase' = "evaluated"
    /\ UNCHANGED <<rows, match>>
    /\ UNCHANGED <<printVars, monoVars, convVars>>

NoMatch == Match(<<>>, Leaf(0))

NextTree == Compile \/ CompileDocumented \/ Evaluate

\* ------------------------------------------------------- monomorphisation

\* Number of generic definitions of the program being compiled.
NumGenerics == 2
\* Number of call sites lowered in one compilation.
MaxCalls == 3

Generics == 1..NumGenerics

\* The concrete type argument lists the call sites instantiate at.
TypeArgLists == {<<"Int">>, <<"Bool">>, <<"Int", "Bool">>}

\* The memo table's key: the generic definition's identity and the concrete
\* type arguments.
Key(g, targs) == <<g, targs>>

Requested == {callSites[i].key : i \in 1..Len(callSites)}

\* The memo table as a sequence of (key, DefinitionId) entries.
MemoKeys(m) == {m[i].key : i \in 1..Len(m)}
MemoGet(m, key) == m[CHOOSE i \in 1..Len(m) : m[i].key = key].id

\* A lookup that never finds the instantiation made before.
LookupMiss(m, key) == None

\* The memoised instantiation of the key, if one was produced already.
Lookup(m, key) == IF key \in MemoKeys(m) THEN Some(MemoGet(m, key)) ELSE None

\* A call site `g<targs>` is lowered: the instantiation for its key is reused
\* or produced, and the call site is rewritten to refer to its DefinitionId.
Instantiate ==
    /\ Len(callSites) < MaxCalls
    /\ \E g \in Generics, targs \in TypeArgLists :
          LET key == Key(g, targs)
              hit == Lookup(memo, key)
          IN  IF hit # None
              THEN /\ callSites' = Append(callSites, [key |-> key, target |-> hit[1]])
                   /\ UNCHANGED <<memo, hirDefs, nextId>>
              ELSE /\ memo' = Append(memo, [key |-> key, id |-> nextId])
                   /\ hirDefs' = hirDefs \cup
                                   {[id |-> nextId, origin |-> g, types |-> targs]}
                   /\ nextId' = nextId + 1
                   /\ callSites' = Append(callSites, [key |-> key, target |-> nextId])
    /\ UNCHANGED <<printVars, treeVars, convVars>>

NextMono == Instantiate

\* ------------------------------------------------------------ conversions

\* Number of conversions made.
MaxConv == 2

DefinitionIds == 1..(NumDefs + 1)

\* The expressions a Definition may bind, as Ast nodes.
Exprs == {[tag |-> "Literal", value |-> "Unit"], [tag |-> "Builtin", value |-> "Deref"]}

Definitions ==
    {Definition(d, e, m) : d \in DefinitionIds, e \in Exprs, m \in BOOLEAN}

\* Ast::Definition(def)
AstDefinition(def) == [tag |-> "Definition", def |-> def]

\* A conversion that keeps the id and forgets to attach the definition.
DetachedVariableFromDefinition(def, addr) == DefinitionInfo(None, def.variable)

\* impl From<DefinitionId> for Variable
VariableFromDefinitionId(definition_id) == DefinitionInfo(None, definition_id)

\* impl From<Definition> for DefinitionInfo; addr is the address Rc::new
\* returns for the Ast::Definition(def) it allocates.
VariableFromDefinition(def, addr) == DefinitionInfo(Some(addr), def.variable)

ConvertDefinitionId ==
    /\ Len(made) < MaxConv
    /\ \E d \in DefinitionIds :
          made' = Append(made, [from |-> "DefinitionId", input |-> d,
                                variable |-> VariableFromDefinitionId(d)])
    /\ UNCHANGED rcHeap
    /\ UNCHANGED <<printVars, treeVars, monoVars>>

ConvertDefinition ==
    /\ Len(made) < MaxConv
    /\ \E def \in Definitions :
          LET addr == Len(rcHeap) + 1
          IN  /\ rcHeap' = Append(rcHeap, AstDefinition(def))
              /\ made' = Append(made, [from |-> "Definition", input |-> def,
                                       variable |-> VariableFromDefinition(def, addr)])
    /\ UNCHANGED <<printVars, treeVars, monoVars>>

NextConv == ConvertDefinitionId \/ ConvertDefinition

\* ----------------------------------------------------------- specifications

\* The state after construction. `part` names the component that is given an
\* input; the other components hold nothing and never move.
Start(part, canFail) ==
    /\ body \in (IF part = "printer" THEN AstGraphs ELSE {EmptyGraph})
    /\ pc = (IF part = "printer" THEN "call" ELSE "idle")
    /\ queue = <<>>
    /\ scheduled = {}
    /\ cur = RootNode
    /\ out = <<>>
    /\ result = "none"
    /\ wfailed = FALSE
    /\ fallible = canFail
    /\ run = 1
    /\ prevOut = <<>>
    /\ IF part = "match" THEN IsMatchInput(rows) ELSE rows = <<>>
    /\ phase = (IF part = "match" THEN "rows" ELSE "idle")
    /\ match = NoMatch
    /\ scrut = [c \in Columns |-> TagNone]
    /\ reached = Stuck
    /\ memo = <<>>
    /\ hirDefs = {}
    /\ callSites = <<>>
    /\ nextId = 0
    /\ rcHeap = <<>>
    /\ made = <<>>

\* One Display call on an Ast, written to a sink that cannot fail.
Init == Start("printer", FALSE)
Next == Display
Spec == Init /\ [][Next]_vars

\* One match, lowered and then evaluated.
InitTree == Start("match", FALSE)
SpecTree == InitTree /\ [][NextTree]_vars

\* The same, with the loop of Display::fmt never left waiting: fmt is a
\* sequential function that runs until it returns.
FairSpec == Spec /\ WF_vars(Next)

\* The same Ast rendered several times over.
NextReprint == Display \/ DisplayAgain
SpecReprint == Init /\ [][NextReprint]_vars

\* One Display call written to a sink whose writes can fail.
InitFallible == Start("printer", TRUE)
SpecFallible == InitFallible /\ [][Next]_vars

\* One compilation's instantiation requests.
InitMono == Start("monomorphiser", FALSE)
SpecMono == InitMono /\ [][NextMono]_vars

\* Conversions into Variables.
InitConv == Start("conversions", FALSE)
SpecConv == InitConv /\ [][NextConv]_vars

\* ---------------------------------------------------- claims on Display

\* The definitions a node's Variables hold handles to.
Handles(n) ==
    {body[n][i].definition[1] : i \in {j \in 1..Len(body[n]) : body[n][j].definition # None}}

RECURSIVE Closure(_, _)
Closure(S, k) ==
    IF k = 0 THEN S ELSE Closure(S \cup UNION {Handles(d) : d \in S}, k - 1)

\* The definitions reachable from the root through definition handles.
Reachable == Closure(Handles(RootNode), NumDefs)

\* The definitions that reach themselves, and those several Variables use.
Recursive == {d \in Defs : d \in Closure(Handles(d), NumDefs)}
Uses(d) ==
    {<<n, i>> \in Nodes \X (1..MaxVars) :
        i <= Len(body[n]) /\ body[n][i].definition = Some(d)}
Shared == {d \in Defs : Cardinality(Uses(d)) >= 2}

\* Where in the output the block of definition d starts, and where d is
\* first referred to.
BlockAt(d) == {i \in 1..Len(out) : out[i] = Tok("def", d)}
RefAt(d) == {i \in 1..Len(out) : out[i] = Tok("ref", d)}
Least(S) == CHOOSE i \in S : \A j \in S : i <= j

ReturnedOk == pc = "done" /\ result = "Ok"

C2_Terminates == <>(pc = "done" /\ result = "Ok" /\ queue = <<>>)

\* fmt has returned on a graph with a recursive and a shared definition.
C2_Witness ==
    /\ pc = "done"
    /\ queue = <<>>
    /\ \E d \in Reachable : d \in Recursive /\ d \in Shared

Block(n) == <<HeadTok(n)>> \o [i \in 1..Len(body[n]) |-> Tok("ref", body[n][i].definition_id)]

RECURSIVE Blocks(_)
Blocks(order) ==
    IF order = <<>> THEN <<>>
    ELSE <<SepTok>> \o Block(Head(order).id) \o Blocks(Tail(order))

\* The definitions whose blocks the output holds, in order.
Printed == SelectSeq(out, LAMBDA t : t.kind = "def")

\* C10: a failed write makes fmt return that error at once: nothing is
\* dequeued or printed after it; and fmt returns Ok only when the root and
\* every queued definition were written in full, each queued definition after
\* exactly one separator.
C10_ErrorPropagation ==
    /\ [](/\ wfailed => (pc = "done" /\ result = "Err")
          /\ result = "Err" => wfailed
          /\ ReturnedOk =>
                /\ queue = <<>>
                /\ {Printed[i].id : i \in 1..Len(Printed)} = scheduled
                /\ Len(Printed) = Cardinality(scheduled)
                /\ out = Block(RootNode) \o Blocks(Printed))
    /\ [][wfailed => UNCHANGED <<queue, cur, out, pc, result>>]_vars

\* A write failed after a queued definition was dequeued, with another one
\* still waiting in the queue.
C10_Witness ==
    /\ wfailed
    /\ result = "Err"
    /\ queue # <<>>
    /\ \E i \in 1..Len(out) : out[i] = SepTok

\* ------------------------------------------------- claims on decision trees

Compiled == phase \in {"compiled", "evaluated"}

\* C3: evaluating a Match's decision tree on a scrutinee value reaches the
\* Leaf whose index is that of the first branch, in source order, whose
\* pattern matches the value; so it does on the tree the source documents for
\* `| None, None -> ... | _ -> ...`.
C3_FirstMatchSemantics ==
    phase = "evaluated" =>
        /\ ~reached.stuck
        /\ reached.leaf = FirstMatch(rows, scrut)

\* The documented tree, evaluated on (None, None): both rows match, and the
\* first one wins.
C3_Witness ==
    /\ phase = "evaluated"
    /\ rows = DocRows
    /\ LeafList(match.decision_tree) = <<1, 1, 0>>
    /\ scrut = [c \in Columns |-> TagNone]
    /\ \A i \in 1..Len(rows) : Matches(rows[i].pattern, scrut)
    /\ reached.leaf = 0

\* C7: every Leaf(i) of a Match's decision tree, at any depth, has i below the
\* length of the Match's branch list; one index may occur at several
\* positions.
C7_LeafIndexInRange ==
    Compiled =>
        LET leaves == LeafList(match.decision_tree)
        IN  \A k \in 1..Len(leaves) :
                leaves[k] >= 0 /\ leaves[k] < Len(match.branches)

\* A tree that holds one leaf index at two positions, one of them under a
\* Switch case and one under an else_case.
C7_Witness ==
    /\ Compiled
    /\ \E k, l \in 1..Len(LeafList(match.decision_tree)) :
          k # l /\ LeafList(match.decision_tree)[k] = LeafList(match.decision_tree)[l]
    /\ \E k \in 1..Len(SwitchList(match.decision_tree)) :
          SwitchList(match.decision_tree)[k].has_else
    /\ Len(match.branches) >= 2

\* C8: evaluation never gets stuck at a Switch: every Switch either has a case
\* for each value of its discriminant or has an else_case, and the else_case
\* is absent only when the case constants cover every value of the
\* discriminant's type.
C8_SwitchTotal ==
    /\ Compiled =>
          LET switches == SwitchList(match.decision_tree)
          IN  \A k \in 1..Len(switches) :
                  /\ \A t \in Tags : t \in switches[k].consts \/ switches[k].has_else
                  /\ ~switches[k].has_else => switches[k].consts = Tags
    /\ phase = "evaluated" => ~reached.stuck

\* A tree with a Switch that has no else_case and a Switch that has one,
\* evaluated to a leaf.
C8_Witness ==
    /\ phase = "evaluated"
    /\ ~reached.stuck
    /\ \E k, l \in 1..Len(SwitchList(match.decision_tree)) :
          /\ SwitchList(match.decision_tree)[k].has_else
          /\ ~SwitchList(match.decision_tree)[l].has_else

\* The tree the design gives for
\*     match (a, b) | (None, _) -> 0 | (_, None) -> 0 | (Some x, Some y) -> 1
ScenarioTree ==
    Switch(1, << <<TagNone, Leaf(0)>>,
                 <<TagSome,
                   Switch(2, << <<TagNone, Leaf(0)>>,
                                <<TagSome,
                                  DefinitionNode(Definition(1, [payload_of |-> 1], FALSE),
                                  DefinitionNode(Definition(2, [payload_of |-> 2], FALSE),
                                                 Leaf(1)))>> >>, None)>> >>, None)

\* C9: rows that select the same branch end in a Leaf with that one branch
\* index, the branch body being stored once in Match.branches; the match
\* `(None, _) -> 0 | (_, None) -> 0 | (Some x, Some y) -> 1` compiles to a
\* Switch on a whose None case is Leaf(0) and whose Some case is a Switch on b
\* with None -> Leaf(0) and Some -> bind x, y, Leaf(1).
C9_SharedLeaf ==
    Compiled =>
        /\ Len(match.branches) = Cardinality({rows[i].branch : i \in 1..Len(rows)})
        /\ \A v, w \in Values :
              LET i == FirstMatchRow(rows, v)
                  j == FirstMatchRow(rows, w)
                  ev == Eval(match.decision_tree, v, {})
                  ew == Eval(match.decision_tree, w, {})
              IN  (i # j /\ rows[i].branch = rows[j].branch)
                  => /\ ~ev.stuck /\ ~ew.stuck
                     /\ ev.leaf = rows[i].branch
                     /\ ew.leaf = rows[i].branch
        /\ rows = ScenarioRows => match.decision_tree = ScenarioTree

\* The scenario's match, compiled: Leaf(0) at two positions, Leaf(1) at one.
C9_Witness ==
    /\ Compiled
    /\ rows = ScenarioRows
    /\ LeafList(match.decision_tree) = <<0, 0, 1>>
    /\ Len(match.branches) = 2

\* -------------------------------------------- claims on monomorphisation

\* C4: the concrete definitions produced hold exactly one definition per
\* distinct (generic definition, type arguments) key requested; a repeated
\* request reuses the memoised instantiation, and every call site refers to
\* the DefinitionId of the instantiation for its own key.
C4_OneInstantiationPerKey ==
    /\ Cardinality(hirDefs) = Cardinality(Requested)
    /\ \A key \in Requested :
          Cardinality({d \in hirDefs : Key(d.origin, d.types) = key}) = 1
    /\ \A d \in hirDefs : Key(d.origin, d.types) \in Requested
    /\ \A d, e \in hirDefs : d.id = e.id => d = e
    /\ \A i \in 1..Len(callSites) :
          \E d \in hirDefs :
              d.id = callSites[i].target /\ Key(d.origin, d.types) = callSites[i].key

\* A key requested twice, and another key requested besides.
C4_Witness ==
    /\ \E i, j \in 1..Len(callSites) : i # j /\ callSites[i].key = callSites[j].key
    /\ Cardinality(Requested) >= 2
    /\ Cardinality(hirDefs) = 2

\* ------------------------------------------------- claims on conversions

\* C5: a Variable converted from a DefinitionId d has definition_id d and no
\* definition handle; a Variable converted from a Definition def has
\* definition_id def.variable and a handle to an Ast::Definition node that
\* binds that id and holds def's expr and mutable flag.
C5_VariableInvariant ==
    \A i \in 1..Len(made) :
        LET c == made[i]
            v == c.variable
        IN  /\ c.from = "DefinitionId" =>
                  /\ v.definition_id = c.input
                  /\ v.definition = None
            /\ c.from = "Definition" =>
                  /\ v.definition_id = c.input.variable
                  /\ v.definition # None
                  /\ v.definition[1] \in 1..Len(rcHeap)
                  /\ rcHeap[v.definition[1]].tag = "Definition"
                  /\ rcHeap[v.definition[1]].def.variable = v.definition_id
                  /\ rcHeap[v.definition[1]].def.expr = c.input.expr
                  /\ rcHeap[v.definition[1]].def.mutable = c.input.mutable

\* Both conversions made, the Definition a mutable one.
C5_Witness ==
    /\ \E i \in 1..Len(made) : made[i].from = "DefinitionId"
    /\ \E i \in 1..Len(made) : made[i].from = "Definition" /\ made[i].input.mutable

====
